---- MODULE Spec2Model ----
(***************************************************************************)
(* A model of github-push-issues.py: the source walker (walk), the         *)
(* template parser (_Entry.load), body resolution (str.format against the  *)
(* context), the entry model (_Entry.create, _create_data) and the push    *)
(* orchestrator (add_issues).                                              *)
(*                                                                         *)
(* Text is modelled as sequences of one-character strings, so that         *)
(* stripping, splitting, suffix tests and ordering are computed the way    *)
(* Python computes them.  None is <<>> and a present value v is <<v>>.     *)
(***************************************************************************)
EXTENDS Integers, Sequences, FiniteSets, TLC

(***************************************************************************)
(* Bounds of the model.                                                    *)
(***************************************************************************)
\* largest number of files in the template tree
MaxFiles == 3
\* the remote answers a creation with a number in 0..MaxNumber
MaxNumber == 2

None == <<>>
Some(v) == <<v>>

(***************************************************************************)
(* Characters and strings.                                                 *)
(***************************************************************************)
\* code points of the characters the model uses (Python compares strings
\* by code point)
Code(c) ==
  CASE c = "\n" -> 10 [] c = " " -> 32 [] c = "#" -> 35
    [] c = "-" -> 45 [] c = "." -> 46 [] c = "/" -> 47
    [] c = "1" -> 49 [] c = "2" -> 50
    [] c = "A" -> 65 [] c = "D" -> 68 [] c = "E" -> 69 [] c = "M" -> 77
    [] c = "R" -> 82 [] c = "T" -> 84
    [] c = "a" -> 97 [] c = "b" -> 98 [] c = "d" -> 100 [] c = "e" -> 101
    [] c = "m" -> 109 [] c = "n" -> 110 [] c = "o" -> 111 [] c = "s" -> 115
    [] c = "t" -> 116 [] c = "x" -> 120 [] c = "y" -> 121

\* s < t for Python strings: lexicographic by code point
RECURSIVE StrLess(_, _)
StrLess(s, t) ==
  IF t = <<>> THEN FALSE
  ELSE IF s = <<>> THEN TRUE
  ELSE IF Code(Head(s)) # Code(Head(t)) THEN Code(Head(s)) < Code(Head(t))
  ELSE StrLess(Tail(s), Tail(t))

\* s.endswith(suffix)
EndsWith(s, suffix) ==
  /\ Len(s) >= Len(suffix)
  /\ SubSeq(s, Len(s) - Len(suffix) + 1, Len(s)) = suffix

\* '/'.join(parts)
RECURSIVE JoinPath(_)
JoinPath(parts) ==
  IF parts = <<>> THEN <<>>
  ELSE IF Len(parts) = 1 THEN parts[1]
  ELSE parts[1] \o <<"/">> \o JoinPath(Tail(parts))

\* s.rsplit('/', 1): the list of one or two pieces
RSplit(s) ==
  LET slashes == {i \in 1..Len(s) : s[i] = "/"}
  IN  IF slashes = {} THEN <<s>>
      ELSE LET k == CHOOSE i \in slashes : \A j \in slashes : j <= i
           IN  <<SubSeq(s, 1, k - 1), SubSeq(s, k + 1, Len(s))>>

\* list.sort() / sorted(): insertion of x into an ascending sequence
RECURSIVE Insert(_, _)
Insert(x, sorted) ==
  IF sorted = <<>> THEN <<x>>
  ELSE IF StrLess(x, Head(sorted)) THEN <<x>> \o sorted
  ELSE <<Head(sorted)>> \o Insert(x, Tail(sorted))

RECURSIVE SortList(_)
SortList(xs) ==
  IF xs = <<>> THEN <<>> ELSE Insert(Head(xs), SortList(Tail(xs)))

\* the elements of a set of strings, ascending
RECURSIVE Ascending(_)
Ascending(S) ==
  IF S = {} THEN <<>>
  ELSE LET m == CHOOSE x \in S : \A y \in S : y = x \/ StrLess(x, y)
       IN  <<m>> \o Ascending(S \ {m})

RECURSIVE Reverse(_)
Reverse(xs) ==
  IF xs = <<>> THEN <<>> ELSE Reverse(Tail(xs)) \o <<Head(xs)>>

RECURSIVE Flatten(_)
Flatten(xss) ==
  IF xss = <<>> THEN <<>> ELSE Head(xss) \o Flatten(Tail(xss))

(***************************************************************************)
(* The template tree: files [dir, name], dir a sequence of directory       *)
(* names below the template root.                                          *)
(***************************************************************************)
README_md == <<"R", "E", "A", "D", "M", "E", ".", "m", "d">>
x_md      == <<"x", ".", "m", "d">>
y_md      == <<"y", ".", "m", "d">>
notes_txt == <<"n", "o", "t", "e", "s", ".", "t", "x", "t">>
dir_a     == <<"a">>
dir_b     == <<"b">>
dir_a_b   == <<"a", "-", "b">>

File(dir, name) == [dir |-> dir, name |-> name]

\* the files a tree is drawn from
FileUniverse ==
  { File(<<>>, README_md), File(<<>>, x_md),
    File(<<dir_a>>, README_md), File(<<dir_a>>, x_md), File(<<dir_a>>, y_md),
    File(<<dir_a>>, notes_txt),
    File(<<dir_a, dir_b>>, x_md),
    File(<<dir_a_b>>, y_md) }

Trees == {t \in SUBSET FileUniverse : Cardinality(t) <= MaxFiles}

\* the path of a file relative to the template root, '/'-separated
RelPath(f) == JoinPath(f.dir \o <<f.name>>)

IsPrefix(p, d) == Len(p) <= Len(d) /\ SubSeq(d, 1, Len(p)) = p

\* the directories of a tree: the root and every ancestor of a file
DirsOf(tree) ==
  {<<>>} \cup UNION {{SubSeq(f.dir, 1, k) : k \in 0..Len(f.dir)} : f \in tree}

(***************************************************************************)
(* walk(template_root)                                                     *)
(***************************************************************************)
\* the template roots tried: a local directory, and URLs by extension
Root_local   == <<"t">>
Root_tar_gz  == <<"h", ":", "/", "/", "t", ".", "t", "a", "r", ".", "g", "z">>
Root_zip     == <<"h", ":", "/", "/", "t", ".", "z", "i", "p">>
Root_gz      == <<"h", ":", "/", "/", "t", ".", "g", "z">>
Root_tar     == <<"h", ":", "/", "/", "t", ".", "t", "a", "r">>
Root_noext   == <<"h", ":", "/", "/", "h", ".", "z", "i", "p", "/", "t">>
TemplateRoots ==
  {Root_local, Root_tar_gz, Root_zip, Root_gz, Root_tar, Root_noext}

\* needle in s
Contains(s, needle) ==
  \E i \in 1..(Len(s) - Len(needle) + 1) :
    SubSeq(s, i, i + Len(needle) - 1) = needle

\* s.rfind(c), 0 when c does not occur
RFind(s, c) ==
  LET at == {i \in 1..Len(s) : s[i] = c}
  IN  IF at = {} THEN 0 ELSE CHOOSE i \in at : \A j \in at : j <= i

\* os.path.splitext(p): <<base, extension>>; a leading dot of the last
\* component starts no extension
SplitExt(p) ==
  LET sep == RFind(p, "/")
      dot == RFind(p, ".")
  IN  IF dot > sep /\ \E i \in (sep + 1)..(dot - 1) : p[i] # "."
      THEN <<SubSeq(p, 1, dot - 1), SubSeq(p, dot, Len(p))>>
      ELSE <<p, <<>>>>

Ext_gz     == <<".", "g", "z">>
Ext_tar_gz == <<".", "t", "a", "r", ".", "g", "z">>
Ext_zip    == <<".", "z", "i", "p">>

IsUrl(template_root) == Contains(template_root, <<":", "/", "/">>)

\* the extension walk() dispatches on
Extension(template_root) ==
  LET split == SplitExt(template_root)
  IN  IF split[2] = Ext_gz
      THEN SplitExt(split[1])[2] \o split[2]
      ELSE split[2]

\* any extension ending in .gz taken for a tar archive
RecognizedExtensionLoose(extension) ==
  EndsWith(extension, Ext_gz) \/ extension = Ext_zip

RecognizedExtension(extension) == extension \in {Ext_tar_gz, Ext_zip}

\* the members of an archive of the tree: its files, and an entry for
\* every directory (tar: a non-file member; zip: a name ending in '/')
Members(tree, extension) ==
  {[name |-> RelPath(f), isfile |-> TRUE] : f \in tree}
  \cup {[name |-> IF extension = Ext_zip THEN JoinPath(d) \o <<"/">>
                  ELSE JoinPath(d),
         isfile |-> FALSE] : d \in DirsOf(tree) \ {<<>>}}

\* the members the archive loops keep
Indexed(members, extension) ==
  IF extension = Ext_tar_gz
  THEN {m \in members : m.isfile}
  ELSE {m \in members : ~EndsWith(m.name, <<"/">>)}

\* functools.partial(opener, member): the object add_issues holds has no
\* path attribute (opener.path is set on what calling it returns)
ArchiveOpener(name) == [path |-> None, target |-> name]

\* functools.partial(open, path, 'r') with opener.path = relpath
LocalOpener(f) == [path |-> Some(RelPath(f)), target |-> RelPath(f)]

\* directories: {directory: {filename: opener}} of the archive loops,
\* yielded in sorted(directories.items()) order
ArchiveGroups(kept) ==
  LET directories == {RSplit(m.name)[1] : m \in kept}
      openers(d) ==
        LET here == {m \in kept : RSplit(m.name)[1] = d}
        IN  [filename \in {RSplit(m.name)[2] : m \in here} |->
               ArchiveOpener(CHOOSE n \in {m.name : m \in here} :
                               RSplit(n)[2] = filename)]
      order == Ascending(directories)
  IN  [i \in 1..Len(order) |-> openers(order[i])]

\* os.listdir order of a set of names, as the filesystem lists them
ListDir(names, fsorder) ==
  IF fsorder = "ascending" THEN Ascending(names) ELSE Reverse(Ascending(names))

\* the subdirectory names of directory d
DirNames(tree, d) ==
  {e[Len(d) + 1] : e \in {e \in DirsOf(tree) : IsPrefix(d, e) /\ Len(e) > Len(d)}}

\* the openers of directory d in local mode
LocalGroup(tree, d) ==
  LET here == {f \in tree : f.dir = d}
  IN  [filename \in {f.name : f \in here} |->
         LocalOpener(CHOOSE f \in here : f.name = filename)]

\* the subdirectory names left as the filesystem listed them
DirNamesAsListed(listing) == listing

\* line 290: dirnames.sort()
DirNamesSorted(listing) == SortList(listing)

\* os.walk(top) top-down, with dirnames.sort() before descending
RECURSIVE LocalWalk(_, _, _)
LocalWalk(tree, d, fsorder) ==
  LET dirnames == DirNamesSorted(ListDir(DirNames(tree, d), fsorder))
  IN  <<LocalGroup(tree, d)>>
      \o Flatten([i \in 1..Len(dirnames) |->
                    LocalWalk(tree, d \o <<dirnames[i]>>, fsorder)])

(***************************************************************************)
(* Template text.  A stream is a sequence of lines, a line a sequence of   *)
(* items: a character [ch |-> c], or a replacement field                   *)
(* {ns[key].attr} of the format-string syntax, kept as one item            *)
(* [ns |-> .., key |-> .., attr |-> ..].                                   *)
(***************************************************************************)
Ch(c) == [ch |-> c]
Text(s) == [i \in 1..Len(s) |-> Ch(s[i])]
Field(ns, key, attr) == [ns |-> ns, key |-> key, attr |-> attr]
IsField(item) == "ns" \in DOMAIN item

\* the characters str.strip() removes, among those of the model
Whitespace == {" ", "\n"}

\* item is one of the characters chars
IsOneOf(item, chars) == ~IsField(item) /\ item.ch \in chars

\* s.lstrip(chars), s.rstrip(chars), s.strip(chars)
RECURSIVE LStrip(_, _)
LStrip(s, chars) ==
  IF s # <<>> /\ IsOneOf(Head(s), chars) THEN LStrip(Tail(s), chars) ELSE s

RECURSIVE RStrip(_, _)
RStrip(s, chars) ==
  IF s # <<>> /\ IsOneOf(s[Len(s)], chars)
  THEN RStrip(SubSeq(s, 1, Len(s) - 1), chars)
  ELSE s

Strip(s, chars) == RStrip(LStrip(s, chars), chars)

\* stream.readline(): the next line, '' at the end of the stream
ReadLine(lines, n) == IF n <= Len(lines) THEN lines[n] ELSE <<>>

\* load without the check of the second line
LoadUnchecked(lines) ==
  [error |-> None,
   title |-> Some(Strip(Strip(Strip(ReadLine(lines, 1), Whitespace), {"#"}),
                        Whitespace)),
   body |-> Some(Flatten(SubSeq(lines, 3, Len(lines))))]

\* load stripping '#' before the spaces around it: only the newline is
\* taken off the first line first
LoadHashFirst(lines) ==
  LET line == ReadLine(lines, 1)
      cut == IF line # <<>> /\ IsOneOf(line[Len(line)], {"\n"})
             THEN SubSeq(line, 1, Len(line) - 1)
             ELSE line
      title == Strip(Strip(cut, {"#"}), Whitespace)
      blank == Strip(ReadLine(lines, 2), Whitespace)
  IN  IF blank # <<>>
      THEN [error |-> Some("ValueError"), title |-> Some(title),
            body |-> None]
      ELSE [error |-> None, title |-> Some(title),
            body |-> Some(Flatten(SubSeq(lines, 3, Len(lines))))]

\* load keeping the second line in the body
LoadBodyFromSecond(lines) ==
  LET title == Strip(Strip(Strip(ReadLine(lines, 1), Whitespace), {"#"}),
                     Whitespace)
      blank == Strip(ReadLine(lines, 2), Whitespace)
  IN  IF blank # <<>>
      THEN [error |-> Some("ValueError"), title |-> Some(title),
            body |-> None]
      ELSE [error |-> None, title |-> Some(title),
            body |-> Some(Flatten(SubSeq(lines, 2, Len(lines))))]

\* _Entry.load: [error, title, body]; the title is assigned before the
\* second line is looked at, the body only after it
Load(lines) ==
  LET title == Strip(Strip(Strip(ReadLine(lines, 1), Whitespace), {"#"}),
                     Whitespace)
      blank == Strip(ReadLine(lines, 2), Whitespace)
  IN  IF blank # <<>>
      THEN [error |-> Some("ValueError"), title |-> Some(title),
            body |-> None]
      ELSE [error |-> None, title |-> Some(title),
            body |-> Some(Flatten(SubSeq(lines, 3, Len(lines))))]

\* str(n) for n >= 0
DigitChar(d) ==
  CASE d = 0 -> "0" [] d = 1 -> "1" [] d = 2 -> "2" [] d = 3 -> "3"
    [] d = 4 -> "4" [] d = 5 -> "5" [] d = 6 -> "6" [] d = 7 -> "7"
    [] d = 8 -> "8" [] d = 9 -> "9"

RECURSIVE Digits(_)
Digits(n) ==
  IF n < 10 THEN <<Ch(DigitChar(n))>>
  ELSE Digits(n \div 10) \o <<Ch(DigitChar(n % 10))>>

\* the field formatted with the entry's title whatever attribute it names
FormatFieldTitle(item, context) ==
  IF item.key \notin DOMAIN context[item.ns]
  THEN [error |-> Some("KeyError"), text |-> <<>>]
  ELSE [error |-> None, text |-> context[item.ns][item.key].title[1]]

\* a field whose key is absent formatted as the empty string
FormatFieldLenient(item, context) ==
  IF item.key \notin DOMAIN context[item.ns]
  THEN [error |-> None, text |-> <<>>]
  ELSE [error |-> None, text |-> Digits(context[item.ns][item.key].number[1])]

\* what one replacement field formats to against the context:
\* [error, text]
FormatField(item, context) ==
  IF item.key \notin DOMAIN context[item.ns]
  THEN [error |-> Some("KeyError"), text |-> <<>>]
  ELSE LET e == context[item.ns][item.key]
       IN  IF item.attr = "number"
           THEN [error |-> None,
                 text |-> IF e.number = None THEN Text(<<"N", "o", "n", "e">>)
                          ELSE Digits(e.number[1])]
           ELSE IF item.attr = "title"
           THEN [error |-> None,
                 text |-> IF e.title = None THEN Text(<<"N", "o", "n", "e">>)
                          ELSE e.title[1]]
           ELSE [error |-> Some("AttributeError"), text |-> <<>>]

\* body.format(**context): [error, text]
RECURSIVE Format(_, _)
Format(body, context) ==
  IF body = <<>> THEN [error |-> None, text |-> <<>>]
  ELSE LET first == IF IsField(Head(body))
                    THEN FormatField(Head(body), context)
                    ELSE [error |-> None, text |-> <<Head(body)>>]
       IN  IF first.error # None THEN first
           ELSE LET rest == Format(Tail(body), context)
                IN  IF rest.error # None THEN rest
                    ELSE [error |-> None, text |-> first.text \o rest.text]

(***************************************************************************)
(* The entry model.                                                        *)
(***************************************************************************)
\* Milestone() and Issue(milestone=milestone_number) as constructed
NewMilestone ==
  [kind |-> "milestone", title |-> None, body |-> None, number |-> None,
   state |-> "open", due_on |-> None]

\* the milestone number passed as the issue's own number
NewIssueNumbered(milestone_number) ==
  [kind |-> "issue", title |-> None, body |-> None,
   number |-> milestone_number, assignee |-> None,
   milestone |-> milestone_number, labels |-> None]

NewIssue(milestone_number) ==
  [kind |-> "issue", title |-> None, body |-> None, number |-> None,
   assignee |-> None, milestone |-> milestone_number, labels |-> None]

\* Python truth of an optional string and of an optional number
BodyTruthy(body) == body # None /\ body[1] # <<>>
NumberTruthy(n) == n # None /\ n[1] # 0

\* Issue._create_data
IssueCreateData(e) ==
  [title |-> e.title[1]]
  @@ (IF BodyTruthy(e.body) THEN [body |-> e.body[1]] ELSE <<>>)
  @@ (IF NumberTruthy(e.milestone) THEN [milestone |-> e.milestone[1]] ELSE <<>>)

\* Milestone._create_data
MilestoneCreateData(e) ==
  [title |-> e.title[1], state |-> e.state]
  @@ (IF BodyTruthy(e.body) THEN [description |-> e.body[1]] ELSE <<>>)

CreateData(e) ==
  IF e.kind = "issue" THEN IssueCreateData(e) ELSE MilestoneCreateData(e)

\* _create_url: the collection the request is posted to
CreateUrl(e) == IF e.kind = "issue" THEN "issues" ELSE "milestones"

\* the answers of the remote to a creation request: the request fails
\* (no connection, or a status urlopen raises on), or a response with a
\* content type, an optional charset parameter and a body that is no JSON,
\* a JSON object without number, or a JSON object with a number
Numbers == 0..MaxNumber
NotJson == [invalid |-> TRUE]
Response(status, type, charset, json) ==
  [status |-> status, type |-> type, charset |-> charset, json |-> json]
Responses ==
  {Response("error", "", None, NotJson)}
  \cup {Response("ok", "text/html", Some("UTF-8"), NotJson)}
  \cup {Response("ok", "application/json", None, [number |-> n]) : n \in Numbers}
  \cup {Response("ok", "application/json", Some("UTF-8"), NotJson)}
  \cup {Response("ok", "application/json", Some("UTF-8"), [message |-> "x"])}
  \cup {Response("ok", "application/json", Some("UTF-8"), [number |-> n]) :
          n \in Numbers}

\* _Entry.create from urlopen(request) on, and _create_response_json:
\* [error, number].  Under Python 3 response.info() is an
\* http.client.HTTPMessage, which has no attribute type.
CreateResult(python, response) ==
  IF response.status = "error"
  THEN [error |-> Some("URLError"), number |-> None]
  ELSE IF python = 3
  THEN [error |-> Some("AttributeError"), number |-> None]
  ELSE IF response.type # "application/json"
  THEN [error |-> Some("ValueError"), number |-> None]
  ELSE IF response.charset = None
  THEN [error |-> Some("TypeError"), number |-> None]
  ELSE IF "invalid" \in DOMAIN response.json
  THEN [error |-> Some("ValueError"), number |-> None]
  ELSE IF "number" \notin DOMAIN response.json
  THEN [error |-> Some("KeyError"), number |-> None]
  ELSE [error |-> None, number |-> Some(response.json.number)]

(***************************************************************************)
(* The contents a template file can have.                                  *)
(***************************************************************************)
\* "# T", a blank line, no body
PlainTemplate == <<Text(<<"#", " ", "T", "\n">>), Text(<<"\n">>)>>
\* a second line that is not blank
NonBlankTemplate ==
  <<Text(<<"T", "\n">>), Text(<<" ", "x", "\n">>), Text(<<"b", "\n">>)>>
\* a body "#{ns[key].number}"
RefTemplate(ns, key) ==
  <<Text(<<"T", "\n">>), Text(<<" ", "\n">>),
    <<Ch("#"), Field(ns, key, "number"), Ch("\n")>>>>

Namespaces == {"milestone", "issue"}

Templates(files) ==
  {PlainTemplate, NonBlankTemplate}
  \cup {RefTemplate(ns, RelPath(f)) : ns \in Namespaces, f \in files}

(***************************************************************************)
(* The state of a run of add_issues.                                       *)
(***************************************************************************)
VARIABLES
  python,            \* the interpreter: 2 or 3
  template_root,     \* the TEMPLATE-ROOT argument
  tree,              \* the files under the template root
  pc,                \* where the run is
  error,             \* the exception that ended the run, or None
  fetched,           \* how often the archive was fetched
  groups,            \* the groups walk() has still to yield
  openers,           \* the current group, README.md popped
  todo,              \* what is left of sorted(openers.items())
  milestone_number,  \* of the current group
  opener,            \* of the template being processed
  entry,             \* the Milestone or Issue being processed
  streams,           \* the targets of the streams that are open
  f,                 \* the lines of the stream being read
  context,           \* {'milestone': {}, 'issue': {}}
  calls              \* the creation requests issued, with their answers

vars ==
  <<python, template_root, tree, pc, error, fetched, groups, openers, todo,
    milestone_number, opener, entry, streams, f, context, calls>>

inputs == <<python, template_root, tree>>

\* before the first template: no opener, no entry
NoOpener == [path |-> None, target |-> <<>>]
NoEntry == [kind |-> "none", title |-> None, body |-> None, number |-> None]

Init ==
  /\ python \in {2, 3}
  /\ template_root \in TemplateRoots
  /\ tree \in Trees
  /\ pc = "AwaitingCredentials"
  /\ error = None
  /\ fetched = 0
  /\ groups = <<>>
  /\ openers = <<>>
  /\ todo = <<>>
  /\ milestone_number = None
  /\ opener = NoOpener
  /\ entry = NoEntry
  /\ streams = {}
  /\ f = <<>>
  /\ context = [milestone |-> <<>>, issue |-> <<>>]
  /\ calls = <<>>

\* the exception recorded and the run carried on
RaiseAndCarryOn(name) ==
  /\ pc' = pc
  /\ error' = Some(name)

\* an exception leaves add_issues: the run is over
Raise(name) ==
  /\ pc' = "Failed"
  /\ error' = Some(name)

\* line 304: get_authorization_headers
GetAuthorizationHeaders ==
  /\ pc = "AwaitingCredentials"
  /\ pc' = "walk"
  /\ UNCHANGED <<inputs, error, fetched, groups, openers, todo,
                 milestone_number, opener, entry, streams, f, context, calls>>

\* lines 244-253: a URL with an extension that is no archive format
WalkUnrecognized ==
  /\ pc = "walk"
  /\ IsUrl(template_root)
  /\ ~RecognizedExtension(Extension(template_root))
  /\ Raise("NotImplementedError")
  /\ UNCHANGED <<inputs, fetched, groups, openers, todo, milestone_number,
                 opener, entry, streams, f, context, calls>>

\* the groups of an archive, or the ValueError of a member name without
\* '/' in directory, filename = name.rsplit('/', 1)
ArchiveIndex(members, extension) ==
  LET kept == Indexed(members, extension)
  IN  IF \E m \in kept : Len(RSplit(m.name)) # 2
      THEN [error |-> Some("ValueError"), groups |-> <<>>]
      ELSE [error |-> None, groups |-> ArchiveGroups(kept)]

\* lines 252-287: the archive is fetched and indexed
WalkArchive ==
  /\ pc = "walk"
  /\ IsUrl(template_root)
  /\ RecognizedExtension(Extension(template_root))
  /\ fetched' = fetched + 1
  /\ \E ok \in BOOLEAN :
       IF ~ok
       THEN Raise("URLError") /\ UNCHANGED groups
       ELSE LET extension == Extension(template_root)
                index == ArchiveIndex(Members(tree, extension), extension)
            IN  IF index.error # None
                THEN Raise(index.error[1]) /\ UNCHANGED groups
                ELSE /\ groups' = index.groups
                     /\ pc' = "groups"
                     /\ UNCHANGED error
  /\ UNCHANGED <<inputs, openers, todo, milestone_number, opener, entry,
                 streams, f, context, calls>>

\* lines 289-299: the local tree, however the filesystem lists it
WalkLocal ==
  /\ pc = "walk"
  /\ ~IsUrl(template_root)
  /\ \E fsorder \in {"ascending", "descending"} :
       groups' = LocalWalk(tree, <<>>, fsorder)
  /\ pc' = "groups"
  /\ UNCHANGED <<inputs, error, fetched, openers, todo, milestone_number,
                 opener, entry, streams, f, context, calls>>

\* the dict left as it was by a lookup that does not pop
WithoutPop(d, k) == d

\* d without key k: what openers.pop(k) leaves
Without(d, k) == [x \in (DOMAIN d) \ {k} |-> d[x]]

\* the milestone number of the previous group carried into the next
GroupMilestoneNumberKept(previous) == previous

\* line 310: the milestone number a group starts with
GroupMilestoneNumber(previous) == None

\* lines 309-313: the next group, and its README.md if it has one
NextGroup ==
  /\ pc = "groups"
  /\ IF groups = <<>>
     THEN /\ pc' = "Done"
          /\ UNCHANGED <<groups, openers, milestone_number, opener, entry>>
     ELSE /\ groups' = Tail(groups)
          /\ milestone_number' = GroupMilestoneNumber(milestone_number)
          /\ IF README_md \in DOMAIN Head(groups)
             THEN /\ entry' = NewMilestone
                  /\ opener' = Head(groups)[README_md]
                  /\ openers' = Without(Head(groups), README_md)
                  /\ pc' = "open"
             ELSE /\ openers' = Head(groups)
                  /\ pc' = "issues"
                  /\ UNCHANGED <<opener, entry>>
  /\ UNCHANGED <<inputs, error, fetched, todo, streams, f, context, calls>>

\* the items in descending order of filename: the loop without sorted()
ItemsUnsorted(d) ==
  LET names == Reverse(Ascending(DOMAIN d))
  IN  [i \in 1..Len(names) |-> <<names[i], d[names[i]]>>]

\* sorted(openers.items()): the items of the dict, in whatever order it
\* holds them, sorted by filename
SortedItems(d) ==
  LET names == SortList(Ascending(DOMAIN d))
  IN  [i \in 1..Len(names) |-> <<names[i], d[names[i]]>>]

Ext_md == <<".", "m", "d">>

\* every file of the group taken for an issue template
IsTemplateAny(filename) == TRUE

\* line 324: the files that are issue templates
IsTemplate(filename) == EndsWith(filename, Ext_md)

\* line 323: the loop over the group's files starts
StartIssues ==
  /\ pc = "issues"
  /\ todo' = SortedItems(openers)
  /\ pc' = "next"
  /\ UNCHANGED <<inputs, error, fetched, groups, openers, milestone_number,
                 opener, entry, streams, f, context, calls>>

\* lines 323-326: the next file of the group
NextIssue ==
  /\ pc = "next"
  /\ IF todo = <<>>
     THEN /\ pc' = "groups"
          /\ UNCHANGED <<todo, opener, entry>>
     ELSE /\ todo' = Tail(todo)
          /\ IF ~IsTemplate(Head(todo)[1])
             THEN UNCHANGED <<pc, opener, entry>>
             ELSE /\ entry' = NewIssue(milestone_number)
                  /\ opener' = Head(todo)[2]
                  /\ pc' = "open"
  /\ UNCHANGED <<inputs, error, fetched, groups, openers, milestone_number,
                 streams, f, context, calls>>

\* lines 314 and 327: opener() opens the template's stream
Open ==
  /\ pc = "open"
  /\ streams' = streams \cup {opener.target}
  /\ \E lines \in Templates(tree) : f' = lines
  /\ pc' = "load"
  /\ UNCHANGED <<inputs, error, fetched, groups, openers, todo,
                 milestone_number, opener, entry, context, calls>>

\* the with block left without closing the stream
LeftOpen(open, target) == open

\* lines 314 and 327: leaving the with block closes the stream
Closed(open, target) == open \ {target}

\* lines 314-315 and 327-328: load the entry; the with block closes the
\* stream, also when load raises
LoadEntry ==
  /\ pc = "load"
  /\ LET loaded == Load(f)
     IN  /\ entry' = [entry EXCEPT !.title = loaded.title,
                                   !.body = loaded.body]
         /\ IF loaded.error # None
            THEN Raise(loaded.error[1])
            ELSE pc' = "resolve" /\ UNCHANGED error
  /\ streams' = Closed(streams, opener.target)
  /\ UNCHANGED <<inputs, fetched, groups, openers, todo, milestone_number,
                 opener, f, context, calls>>

\* lines 316 and 329: the body is formatted against the context
Resolve ==
  /\ pc = "resolve"
  /\ LET formatted == Format(entry.body[1], context)
     IN  IF formatted.error # None
         THEN Raise(formatted.error[1]) /\ UNCHANGED entry
         ELSE /\ entry' = [entry EXCEPT !.body = Some(formatted.text)]
              /\ pc' = "create"
              /\ UNCHANGED error
  /\ UNCHANGED <<inputs, fetched, groups, openers, todo, milestone_number,
                 opener, streams, f, context, calls>>

\* the request _Entry.create posts; target names the template it is for
Request(e, target, response) ==
  [method |-> "POST", url |-> CreateUrl(e), data |-> CreateData(e),
   target |-> target, response |-> response]

\* lines 317-320 and 330-333: the creation request and its answer
Create ==
  /\ pc = "create"
  /\ \E response \in Responses :
       LET result == CreateResult(python, response)
       IN  /\ calls' = Append(calls, Request(entry, opener.target, response))
           /\ IF result.error # None
              THEN Raise(result.error[1]) /\ UNCHANGED entry
              ELSE /\ entry' = [entry EXCEPT !.number = result.number]
                   /\ pc' = "insert"
                   /\ UNCHANGED error
  /\ UNCHANGED <<inputs, fetched, groups, openers, todo, milestone_number,
                 opener, streams, f, context>>

\* d with d[k] = v
With(d, k, v) == [x \in (DOMAIN d) \cup {k} |-> IF x = k THEN v ELSE d[x]]

\* lines 321-322 and 334: the entry enters the context under opener.path
InsertEntry ==
  /\ pc = "insert"
  /\ IF opener.path = None
     THEN /\ Raise("AttributeError")
          /\ UNCHANGED <<context, milestone_number>>
     ELSE /\ context' = [context EXCEPT
                           ![entry.kind] = With(@, opener.path[1], entry)]
          /\ IF entry.kind = "milestone"
             THEN milestone_number' = entry.number /\ pc' = "issues"
             ELSE UNCHANGED milestone_number /\ pc' = "next"
          /\ UNCHANGED error
  /\ UNCHANGED <<inputs, fetched, groups, openers, todo, opener, entry,
                 streams, f, calls>>

Next ==
  \/ GetAuthorizationHeaders
  \/ WalkUnrecognized
  \/ WalkArchive
  \/ WalkLocal
  \/ NextGroup
  \/ StartIssues
  \/ NextIssue
  \/ Open
  \/ LoadEntry
  \/ Resolve
  \/ Create
  \/ InsertEntry

Spec == Init /\ [][Next]_vars

(***************************************************************************)
(* Properties of a run.                                                    *)
(***************************************************************************)
\* the file of the tree a request is for
FileOf(target) == CHOOSE file \in tree : RelPath(file) = target
CallFile(i) == FileOf(calls[i].target)
HasReadme(dir) == File(dir, README_md) \in tree
Last(s) == s[Len(s)]

\* the answer lets create() record a number
Succeeded(call) ==
  /\ python = 2
  /\ call.response.status = "ok"
  /\ call.response.type = "application/json"
  /\ call.response.charset # None
  /\ "number" \in DOMAIN call.response.json

\* C1: within a directory group the creation calls are ordered: the
\* Milestone call of the group's README.md comes before every Issue call
\* of the group, the Issue calls are in ascending order of filename, and a
\* file whose name does not end in .md produces no creation call.
C1_GroupOrder ==
  /\ \A i \in DOMAIN calls :
       /\ EndsWith(CallFile(i).name, Ext_md)
       /\ (calls[i].url = "milestones") = (CallFile(i).name = README_md)
       /\ (calls[i].url = "issues" /\ HasReadme(CallFile(i).dir)) =>
            \E h \in 1..(i - 1) :
              /\ calls[h].url = "milestones"
              /\ CallFile(h) = File(CallFile(i).dir, README_md)
  /\ \A i, j \in DOMAIN calls :
       (i < j /\ CallFile(i).dir = CallFile(j).dir /\ calls[i].url = "issues") =>
         /\ calls[j].url = "issues"
         /\ StrLess(CallFile(i).name, CallFile(j).name)

\* a group's milestone and its two issues have been created, in order
C1_Witness ==
  /\ pc = "Done"
  /\ Len(calls) = 3
  /\ calls[1].target = RelPath(File(<<dir_a>>, README_md))
  /\ calls[2].target = RelPath(File(<<dir_a>>, x_md))
  /\ calls[3].target = RelPath(File(<<dir_a>>, y_md))

\* C2: for a directory group without README.md no Milestone creation call
\* is issued and no Issue payload of the group carries a milestone field,
\* also when an earlier group created a milestone.
C2_NoReadmeNoMilestone ==
  \A i \in DOMAIN calls :
    ~HasReadme(CallFile(i).dir) =>
      /\ calls[i].url = "issues"
      /\ "milestone" \notin DOMAIN calls[i].data

\* an issue of a group without README.md is created after another group's
\* milestone got a nonzero number
C2_Witness ==
  /\ Len(calls) = 2
  /\ calls[1].url = "milestones"
  /\ Succeeded(calls[1])
  /\ calls[1].response.json.number # 0
  /\ calls[2].url = "issues"
  /\ ~HasReadme(CallFile(2).dir)
  /\ "milestone" \notin DOMAIN calls[2].data

ContextKeys == DOMAIN context.milestone \cup DOMAIN context.issue
Namespace(url) == IF url = "milestones" THEN "milestone" ELSE "issue"

\* C3: in every source mode, when a template's body is resolved the
\* context holds exactly the entries of the templates processed before it,
\* each under its relative path, and none of a template not yet created;
\* an entry is inserted right after its creation call succeeds.
C3_ContextAtResolve ==
  /\ ContextKeys \subseteq {calls[i].target : i \in DOMAIN calls}
  /\ \A i \in DOMAIN calls :
       (Succeeded(calls[i]) /\ ~(i = Len(calls) /\ pc = "insert")) =>
         /\ calls[i].target \in DOMAIN context[Namespace(calls[i].url)]
         /\ context[Namespace(calls[i].url)][calls[i].target].number
              = Some(calls[i].response.json.number)
  /\ pc = "resolve" => \A i \in DOMAIN calls : calls[i].target \in ContextKeys

\* the same, for a local directory only
C3_LocalContextAtResolve == ~IsUrl(template_root) => C3_ContextAtResolve

\* a body has a field whose key the context lacks
AbsentRef(body) ==
  \E i \in DOMAIN body :
    IsField(body[i]) /\ body[i].key \notin DOMAIN context[body[i].ns]

\* C4: resolving a body that references a path absent from the context
\* fails the run, whether or not a template with that path comes later:
\* nothing is substituted or deferred, and no creation call is issued for
\* the referencing template or for any later one.
C4_AbsentReferenceFails ==
  /\ [][(pc = "resolve" /\ AbsentRef(entry.body[1])) =>
          /\ pc' = "Failed"
          /\ error' = Some("KeyError")
          /\ entry' = entry
          /\ calls' = calls
          /\ context' = context]_vars
  /\ [](pc = "Failed" => ~ENABLED Next)

\* an issue referencing the next issue of its own group has failed
C4_Witness ==
  /\ pc = "Failed"
  /\ error = Some("KeyError")
  /\ File(<<dir_a>>, y_md) \in tree
  /\ opener.target = RelPath(File(<<dir_a>>, x_md))
  /\ f = RefTemplate("issue", RelPath(File(<<dir_a>>, y_md)))
  /\ Len(calls) = 1
  /\ calls[1].url = "milestones"

\* the number the remote returned for the template at path key
RemoteNumber(key) ==
  calls[CHOOSE i \in DOMAIN calls : calls[i].target = key].response.json.number

\* the body with every field replaced by the digits of that number
WithRemoteNumbers(body) ==
  Flatten([i \in DOMAIN body |->
             IF IsField(body[i]) THEN Digits(RemoteNumber(body[i].key))
             ELSE <<body[i]>>])

\* the body a request carries, '' if none
SentBody(call) ==
  IF "body" \in DOMAIN call.data THEN call.data.body
  ELSE IF "description" \in DOMAIN call.data THEN call.data.description
  ELSE <<>>

\* C5: when a body references the number of milestone[p] or issue[p] and
\* p is in the context, the body sent in the creation payload has the
\* reference replaced by exactly the number the remote returned when the
\* entry for template p was created.
C5_NumberSubstituted ==
  [][/\ (pc = "resolve" /\ pc' = "create") =>
          entry'.body = Some(WithRemoteNumbers(entry.body[1]))
     /\ pc = "create" => SentBody(Last(calls')) = entry.body[1]]_vars

\* the issue of a later group is sent with the number of an earlier
\* group's issue in its body
C5_Witness ==
  /\ Len(calls) = 3
  /\ calls[1].target = RelPath(File(<<dir_a>>, README_md))
  /\ calls[1].response.json = [number |-> 1]
  /\ calls[2].target = RelPath(File(<<dir_a>>, x_md))
  /\ calls[2].response.json = [number |-> 2]
  /\ calls[2].data.milestone = 1
  /\ calls[3].target = RelPath(File(<<dir_a_b>>, y_md))
  /\ calls[3].data.body = Text(<<"#", "2", "\n">>)
  /\ "milestone" \notin DOMAIN calls[3].data

\* C6: an entry's number is unset until its own creation call has returned
\* successfully, it is assigned at most once and never changes afterwards,
\* and every entry in the context has its number set.
C6_NumberLifecycle ==
  /\ [](/\ entry.number # None =>
             /\ calls # <<>>
             /\ Last(calls).target = opener.target
             /\ Succeeded(Last(calls))
             /\ entry.number = Some(Last(calls).response.json.number)
        /\ \A ns \in Namespaces : \A k \in DOMAIN context[ns] :
             context[ns][k].number # None)
  /\ [][/\ \A ns \in Namespaces : \A k \in DOMAIN context[ns] :
             /\ k \in DOMAIN context'[ns]
             /\ context'[ns][k].number = context[ns][k].number
        /\ (entry.number # None /\ entry'.number # entry.number) =>
             (entry'.number = None /\ opener' # opener)]_vars

\* a second entry has just been numbered, the first is in the context
C6_Witness ==
  /\ pc = "insert"
  /\ entry.kind = "issue"
  /\ entry.number = Some(2)
  /\ DOMAIN context.milestone # {}
  /\ \A k \in DOMAIN context.milestone : context.milestone[k].number = Some(0)

IsPrefixOf(s, t) == Len(s) <= Len(t) /\ SubSeq(t, 1, Len(s)) = s

\* C7: once a step of the run fails no further creation call is issued,
\* the failed call is not retried, and what was created before the failure
\* stays created: the run issues no delete or update call.
C7_FailureStops ==
  /\ [](error # None => (pc = "Failed" /\ ~ENABLED Next))
  /\ [](\A i \in DOMAIN calls :
          /\ calls[i].method = "POST"
          /\ calls[i].url \in {"milestones", "issues"}
          /\ i < Len(calls) => Succeeded(calls[i])
          /\ \A j \in DOMAIN calls : calls[j].target = calls[i].target => j = i)
  /\ [][IsPrefixOf(calls, calls') /\ (error # None => calls' = calls)]_vars

\* the third creation call failed after two entries were created
C7_Witness ==
  /\ pc = "Failed"
  /\ error = Some("URLError")
  /\ Len(calls) = 3
  /\ Succeeded(calls[1])
  /\ Succeeded(calls[2])
  /\ calls[3].response.status = "error"

\* C8: for a URL whose trailing extension is neither .tar.gz nor .zip the
\* run fails with NotImplementedError, and up to that failure no archive is
\* fetched and no creation call issued.
C8_UnrecognizedBeforeNetwork ==
  (/\ Contains(template_root, <<":", "/", "/">>)
   /\ ~EndsWith(template_root, Ext_tar_gz)
   /\ ~EndsWith(template_root, Ext_zip)) =>
    /\ fetched = 0
    /\ calls = <<>>
    /\ pc \in {"AwaitingCredentials", "walk", "Failed"}
    /\ pc = "Failed" => error = Some("NotImplementedError")
    /\ pc = "walk" => ENABLED WalkUnrecognized

\* a URL ending in .gz, but not in .tar.gz, has been refused
C8_Witness ==
  /\ template_root = Root_gz
  /\ pc = "Failed"
  /\ error = Some("NotImplementedError")
  /\ tree # {}

\* C9: a run over a local tree that is empty, or in which no directory
\* holds a file ending in .md, ends in Done without error and with no
\* creation call; a directory without .md files contributes nothing.
C9_NothingToPush ==
  (/\ ~Contains(template_root, <<":", "/", "/">>)
   /\ \A file \in tree : ~EndsWith(file.name, Ext_md)) =>
    /\ calls = <<>>
    /\ ContextKeys = {}
    /\ error = None
    /\ pc # "Failed"
    /\ pc = "Done" \/ ENABLED Next

\* the run over a tree holding only notes.txt is done
C9_Witness ==
  /\ pc = "Done"
  /\ template_root = Root_local
  /\ tree = {File(<<dir_a>>, notes_txt)}
  /\ calls = <<>>

\* the second line of a stream has a character that is no whitespace
SecondLineNonBlank(lines) ==
  /\ Len(lines) >= 2
  /\ \E i \in DOMAIN lines[2] : lines[2][i] \notin {Ch(" "), Ch("\n")}

\* C10: parsing a template whose second line is non-empty after stripping
\* fails with a ValueError; no body is produced and no creation call is
\* issued for that template.
C10_NonBlankSecondLineFails ==
  /\ [][(pc = "load" /\ SecondLineNonBlank(f)) =>
          /\ pc' = "Failed"
          /\ error' = Some("ValueError")
          /\ entry'.body = None
          /\ calls' = calls]_vars
  /\ [](pc \in {"resolve", "create", "insert"} => ~SecondLineNonBlank(f))

\* the second template of a run had a non-blank second line
C10_Witness ==
  /\ pc = "Failed"
  /\ error = Some("ValueError")
  /\ f = NonBlankTemplate
  /\ entry.body = None
  /\ Len(calls) = 1
  /\ calls[1].target # opener.target

(***************************************************************************)
(* _Entry.load on its own: the run stands at the with block of one         *)
(* template of a local tree, whose stream holds any of the texts below.    *)
(***************************************************************************)
MaxTitleLen == 3
MaxBodyLines == 2

Newline == <<"\n">>

\* the strings of at most n characters over the alphabet
StringsUpTo(alphabet, n) == UNION {[1..k -> alphabet] : k \in 0..n}

\* first lines: spaces, '#' and a letter, ended by a newline or by the end
\* of the stream
TitleChars == {" ", "#", "T"}
FirstLines ==
  {Text(t \o nl) : t \in StringsUpTo(TitleChars, MaxTitleLen),
                   nl \in {<<>>, Newline}} \ {<<>>}

\* second lines that end with a newline, and those the stream ends in
SecondLines == {Text(Newline), Text(<<" ", "\n">>), Text(<<"x", "\n">>),
                Text(<<" ", "x", " ", "\n">>)}
LastSecondLines == {Text(<<" ">>), Text(<<"x">>)}

\* the lines after the second: whole lines, then possibly one the stream
\* ends in without a newline
BodyLines == {Text(<<"b", "\n">>), Text(Newline),
              <<Ch("#"), Field("issue", <<"x", ".", "m", "d">>, "number"),
                Ch("\n")>>}
Bodies ==
  {ls \o last : ls \in StringsUpTo(BodyLines, MaxBodyLines),
                last \in {<<>>, <<Text(<<" ", "b">>)>>}}

EndsLine(line) == line # <<>> /\ line[Len(line)] = Ch("\n")

\* the texts a template file can hold: only its last line can lack the
\* newline
Streams ==
  {<<>>}
  \cup {<<l1>> : l1 \in FirstLines}
  \cup {<<l1, l2>> : l1 \in {l \in FirstLines : EndsLine(l)},
                     l2 \in LastSecondLines}
  \cup {<<l1, l2>> \o ls : l1 \in {l \in FirstLines : EndsLine(l)},
                           l2 \in SecondLines, ls \in Bodies}

\* the template x.md of a local tree has just been opened, as a milestone's
\* or an issue's
InitLoad ==
  /\ python = 2
  /\ template_root = Root_local
  /\ tree = {File(<<>>, x_md)}
  /\ pc = "load"
  /\ error = None
  /\ fetched = 0
  /\ groups = <<>>
  /\ openers = LocalGroup(tree, <<>>)
  /\ todo = <<>>
  /\ milestone_number = None
  /\ opener = LocalOpener(File(<<>>, x_md))
  /\ entry \in {NewMilestone, NewIssue(None)}
  /\ streams = {opener.target}
  /\ f \in Streams
  /\ context = [milestone |-> <<>>, issue |-> <<>>]
  /\ calls = <<>>

NextLoad == LoadEntry

SpecLoad == InitLoad /\ [][NextLoad]_vars

\* s without the characters chars at its two ends: what lies between the
\* first and the last item that is not one of them
Between(s, chars) ==
  LET keep == {i \in 1..Len(s) : ~(~IsField(s[i]) /\ s[i].ch \in chars)}
  IN  IF keep = {}
      THEN <<>>
      ELSE SubSeq(s, CHOOSE i \in keep : \A j \in keep : i <= j,
                     CHOOSE i \in keep : \A j \in keep : j <= i)

FirstLine(lines) == IF lines = <<>> THEN <<>> ELSE lines[1]

WithoutNewline(line) ==
  IF EndsLine(line) THEN SubSeq(line, 1, Len(line) - 1) ELSE line

\* C11 as stated: the title is the first line without its trailing newline,
\* then without the '#' characters at its ends, then without the whitespace
\* around what is left.
C11_HashThenWhitespace ==
  entry.title # None =>
    entry.title[1] =
      Between(Between(WithoutNewline(FirstLine(f)), {"#"}), Whitespace)

\* C11, amended: the title is the first line without the whitespace at its
\* two ends (the newline included), then without the '#' characters at the
\* ends of that, then without the whitespace around what is left.
C11_WhitespaceThenHash ==
  entry.title # None =>
    entry.title[1] =
      Between(Between(Between(FirstLine(f), Whitespace), {"#"}), Whitespace)

\* a first line with a space before its '#' was loaded
C11_Witness ==
  /\ pc = "resolve"
  /\ Len(f) = 1
  /\ f[1] = Text(<<" ", "#", "T", "\n">>)
  /\ entry.title = Some(Text(<<"T">>))

\* where line k of the stream starts in the text of the lines from the
\* third on
RECURSIVE Offset(_, _)
Offset(lines, k) ==
  IF k <= 3 THEN 0 ELSE Offset(lines, k - 1) + Len(lines[k - 1])

\* C12: when the second line of a template is blank, the load succeeds and
\* the raw body is the lines from the third on, item for item and with
\* their newlines; it is the empty string when the stream ends with the
\* second line.
C12_BodyIsTheRest ==
  (pc # "load" /\ ~SecondLineNonBlank(f)) =>
    /\ pc = "resolve"
    /\ entry.body # None
    /\ Len(entry.body[1]) = Offset(f, Len(f) + 1)
    /\ \A k \in 3..Len(f) : \A i \in 1..Len(f[k]) :
         entry.body[1][Offset(f, k) + i] = f[k][i]
    /\ Len(f) <= 2 => entry.body[1] = <<>>

\* a body of two lines whose second ends the stream without a newline
C12_Witness ==
  /\ pc = "resolve"
  /\ Len(f) = 4
  /\ f[2] = Text(<<" ", "\n">>)
  /\ f[3] = Text(Newline)
  /\ f[4] = Text(<<" ", "b">>)
  /\ entry.body = Some(Text(<<"\n", " ", "b">>))

(***************************************************************************)
(* Further properties of a run.                                            *)
(***************************************************************************)
\* C13: the payload of every Issue created in a group whose README.md was
\* created carries a milestone field equal to the number the remote
\* returned for that Milestone, whatever the number.
C13_MilestoneAttached ==
  \A i \in DOMAIN calls : \A j \in DOMAIN calls :
    (/\ calls[i].url = "milestones"
     /\ Succeeded(calls[i])
     /\ calls[j].url = "issues"
     /\ CallFile(j).dir = CallFile(i).dir) =>
      /\ "milestone" \in DOMAIN calls[j].data
      /\ calls[j].data.milestone = calls[i].response.json.number

\* directory d comes before directory e in a top-down walk that takes the
\* subdirectories of each directory in ascending order of name
DirPrecedes(d, e) ==
  /\ d # e
  /\ \/ IsPrefix(d, e)
     \/ \E k \in 1..Len(d) :
          /\ k <= Len(e)
          /\ SubSeq(d, 1, k - 1) = SubSeq(e, 1, k - 1)
          /\ StrLess(d[k], e[k])

\* template g is pushed before template h in such a walk
FilePrecedes(g, h) ==
  IF g.dir # h.dir
  THEN DirPrecedes(g.dir, h.dir)
  ELSE \/ g.name = README_md /\ h.name # README_md
       \/ g.name # README_md /\ h.name # README_md /\ StrLess(g.name, h.name)

TemplateFiles == {file \in tree : EndsWith(file.name, Ext_md)}

\* C14: in local mode the sequence of creation calls is determined by the
\* tree alone, however the filesystem lists a directory: when a template is
\* pushed, the templates pushed before it are exactly those that precede it
\* top-down, subdirectories in ascending order, the README.md of a
\* directory first and its other files in ascending order.
C14_LocalOrder ==
  ~IsUrl(template_root) =>
    \A j \in DOMAIN calls :
      /\ {CallFile(i) : i \in 1..(j - 1)} =
           {g \in TemplateFiles : FilePrecedes(g, CallFile(j))}
      /\ Cardinality({CallFile(i) : i \in 1..(j - 1)}) = j - 1

\* a, a/b and a-b were pushed in the order of the walk
C14_Witness ==
  /\ pc = "Done"
  /\ ~IsUrl(template_root)
  /\ tree = {File(<<dir_a>>, x_md), File(<<dir_a, dir_b>>, x_md), File(<<dir_a_b>>, y_md)}
  /\ Len(calls) = 3
  /\ calls[1].target = RelPath(File(<<dir_a>>, x_md))
  /\ calls[2].target = RelPath(File(<<dir_a, dir_b>>, x_md))
  /\ calls[3].target = RelPath(File(<<dir_a_b>>, y_md))

\* the answer is JSON with a number and names no charset
NoCharset(call) ==
  /\ call.response.status = "ok"
  /\ call.response.type = "application/json"
  /\ call.response.charset = None
  /\ "number" \in DOMAIN call.response.json

\* C15: when the answer to a creation call is application/json without a
\* charset, the payload is decoded as UTF-8, the returned number is
\* recorded on the entry and the run goes on.
C15_DefaultCharset ==
  [][(pc = "create" /\ calls' # calls /\ NoCharset(Last(calls'))) =>
       /\ pc' = "insert"
       /\ entry'.number = Some(Last(calls').response.json.number)]_vars

\* the groups gs hold every file of the tree once, under its bare name,
\* the files of a directory together, in ascending order of directory name
GroupOf(gs, file) ==
  {i \in DOMAIN gs : /\ file.name \in DOMAIN gs[i]
                     /\ gs[i][file.name].target = RelPath(file)}

GroupsCover(gs) ==
  /\ \A file \in tree : Cardinality(GroupOf(gs, file)) = 1
  /\ \A g \in tree : \A h \in tree :
       g.dir = h.dir => GroupOf(gs, g) = GroupOf(gs, h)
  /\ \A g \in tree : \A h \in tree :
       StrLess(JoinPath(g.dir), JoinPath(h.dir)) =>
         \A i \in GroupOf(gs, g) : \A j \in GroupOf(gs, h) : i < j

\* C16: in archive mode, once the archive is fetched, every regular-file
\* member, one at the archive root included, is in exactly one yielded
\* group under its bare filename, the members of a directory share a
\* group, and the groups are in ascending order of directory name.
C16_EveryMemberGrouped ==
  [][(/\ pc = "walk"
      /\ IsUrl(template_root)
      /\ fetched' = fetched + 1
      /\ error' # Some("URLError")) =>
       /\ pc' = "groups"
       /\ GroupsCover(groups')]_vars

\* C17: at most one template stream is open at any time: the stream of a
\* template is open only while the template is loaded, it is closed before
\* the template's creation call is issued and before the next stream is
\* opened, whether the load succeeds or fails.
C17_OneStreamAtATime ==
  /\ [](/\ Cardinality(streams) <= 1
        /\ pc = "load" => streams = {opener.target}
        /\ pc # "load" => streams = {})
  /\ [][/\ calls' # calls => (streams = {} /\ streams' = {})
        /\ (streams' # streams /\ streams' # {}) => streams = {}]_vars

\* the stream of a second template is open, the first has been created
C17_Witness ==
  /\ pc = "load"
  /\ streams = {opener.target}
  /\ Len(calls) = 1
  /\ calls[1].target # opener.target

\* C18: in a run that completes, every file of the tree whose name ends in
\* .md has exactly one creation call and no other file has any; the call
\* for a README.md is a Milestone call, never an Issue call, and the call
\* for any other template is an Issue call.
C18_OneCallPerTemplate ==
  /\ \A i \in DOMAIN calls :
       /\ \E file \in tree : RelPath(file) = calls[i].target
       /\ calls[i].url =
            (IF CallFile(i).name = README_md THEN "milestones" ELSE "issues")
  /\ pc = "Done" =>
       \A file \in tree :
         Cardinality({i \in DOMAIN calls : calls[i].target = RelPath(file)}) =
           (IF EndsWith(file.name, Ext_md) THEN 1 ELSE 0)

\* a README.md, a template and a file that is none were pushed
C18_Witness ==
  /\ pc = "Done"
  /\ tree = {File(<<dir_a>>, README_md), File(<<dir_a>>, x_md),
             File(<<dir_a>>, notes_txt)}
  /\ Len(calls) = 2
  /\ calls[1].url = "milestones"
  /\ calls[2].url = "issues"

\* the files of each group that has any, group after group
HasFiles(group) == DOMAIN group # {}
GroupFiles(gs) ==
  LET kept == SelectSeq(gs, HasFiles)
  IN  [i \in 1..Len(kept) |-> {kept[i][n].target : n \in DOMAIN kept[i]}]

\* C19: the walk yields the groups of a tree in one order, whether the tree
\* is read from a local directory or from an archive of it: the order of
\* the top-down local walk with sorted subdirectory names.
C19_SameOrderInBothModes ==
  [][(pc = "walk" /\ pc' = "groups") =>
       GroupFiles(groups') = GroupFiles(LocalWalk(tree, <<>>, "ascending"))]_vars
====
